---- MODULE Spec2Model ----
(***************************************************************************)
(* A model of amulStockAlert.py: the availability classifier               *)
(* (StockMonitor.is_product_available, text_based_availability_check,      *)
(* extract_price) computed on the characters of a page, and the            *)
(* change-detection loop of StockMonitor.monitor_products with the state   *)
(* file it loads and saves.                                                *)
(*                                                                         *)
(* Abstractions: timestamps (last_run, last_checked, initialized) and the  *)
(* text of log lines and messages are left out; the HTTP status code of a  *)
(* successful fetch is the constant 200.  A page is a flat sequence of     *)
(* elements and text; `content` is its serialisation, and the tree that    *)
(* BeautifulSoup builds from that serialisation is the sequence itself.    *)
(***************************************************************************)
EXTENDS Integers, Sequences, FiniteSets, TLC

VARIABLES
    \* ---- one call of check_product_availability on a page (SpecClassify)
    page,            \* the elements of the page that was served
    bs4,             \* "ok" | "missing" (ImportError) | "error" (Exception)
    cpc,             \* "fetched" | "classified"
    available,       \* the verdict of is_product_available
    price,           \* the result of extract_price: <<>> is None, <<s>> is s
    \* ---- the monitor (Spec)
    state_file,      \* stock_state.json
    pc,              \* position of the process in main / monitor_products
    previous_state,  \* self.previous_state
    current_state,   \* current_state of monitor_products
    notifications_sent, \* the list notifications_sent
    idx,             \* index of `product` in self.products
    status_change,   \* the label computed at line 402
    exit_kind,       \* how the product loop was left
    runs,            \* number of processes started so far
    \* ---- history variables (not program state)
    loaded,          \* the state load_state returned to __init__
    events,          \* notification events raised in this run
    checked,         \* the statuses check_product_availability returned
    write_log,       \* the arguments of save_state calls made by this run
    undelivered      \* the notifications, of the run that wrote the state
                     \* file, that neither transport delivered

cvars == <<page, bs4, cpc, available, price>>
mvars == <<state_file, pc, previous_state, current_state, notifications_sent,
           idx, status_change, exit_kind, runs, loaded, events, checked,
           write_log, undelivered>>
vars == <<page, bs4, cpc, available, price,
          state_file, pc, previous_state, current_state, notifications_sent,
          idx, status_change, exit_kind, runs, loaded, events, checked,
          write_log, undelivered>>

(***************************************************************************)
(* Strings.  TLC's Len, SubSeq and \o work on strings character by         *)
(* character.                                                              *)
(***************************************************************************)

\* Python `p in s`
Contains(s, p) ==
    \E i \in 1..(Len(s) - Len(p) + 1) : SubSeq(s, i, i + Len(p) - 1) = p

LowerChar(c) ==
    CASE c = "A" -> "a" [] c = "B" -> "b" [] c = "C" -> "c" [] c = "D" -> "d"
      [] c = "E" -> "e" [] c = "F" -> "f" [] c = "G" -> "g" [] c = "H" -> "h"
      [] c = "I" -> "i" [] c = "J" -> "j" [] c = "K" -> "k" [] c = "L" -> "l"
      [] c = "M" -> "m" [] c = "N" -> "n" [] c = "O" -> "o" [] c = "P" -> "p"
      [] c = "Q" -> "q" [] c = "R" -> "r" [] c = "S" -> "s" [] c = "T" -> "t"
      [] c = "U" -> "u" [] c = "V" -> "v" [] c = "W" -> "w" [] c = "X" -> "x"
      [] c = "Y" -> "y" [] c = "Z" -> "z" [] OTHER -> c

\* Python str.lower(), character by character (the halves keep the
\* evaluation shallow)
RECURSIVE Lower(_)
Lower(s) ==
    IF Len(s) = 0 THEN ""
    ELSE IF Len(s) = 1 THEN LowerChar(s)
    ELSE LET h == Len(s) \div 2
         IN  Lower(SubSeq(s, 1, h)) \o Lower(SubSeq(s, h + 1, Len(s)))

\* the whitespace str.strip() removes and \S+ splits on: space, tab, newline,
\* carriage return, form feed, and (written as the characters themselves)
\* the vertical tab and the separators 0x1c to 0x1f.  The whitespace outside
\* ASCII (0x85, 0xa0, ...) cannot be written in a string here.
IsSpace(c) ==
    c \in {" ", "\t", "\n", "\r", "\f", "", "", "", "", ""}

\* Python str.strip()
RECURSIVE Strip(_)
Strip(s) ==
    IF Len(s) = 0 THEN ""
    ELSE IF IsSpace(SubSeq(s, 1, 1)) THEN Strip(SubSeq(s, 2, Len(s)))
    ELSE IF IsSpace(SubSeq(s, Len(s), Len(s))) THEN Strip(SubSeq(s, 1, Len(s) - 1))
    ELSE s

\* The whitespace-separated tokens of an attribute value (bs4 splits the
\* multi-valued class attribute this way).
RECURSIVE Tokens(_, _)
Tokens(s, cur) ==
    IF Len(s) = 0 THEN (IF cur = "" THEN <<>> ELSE <<cur>>)
    ELSE IF IsSpace(SubSeq(s, 1, 1))
         THEN (IF cur = "" THEN <<>> ELSE <<cur>>) \o Tokens(SubSeq(s, 2, Len(s)), "")
         ELSE Tokens(SubSeq(s, 2, Len(s)), cur \o SubSeq(s, 1, 1))

Range(f) == {f[i] : i \in DOMAIN f}


(***************************************************************************)
(* Pages.  An element is [tag, attrs, text]: attrs is the sequence of its  *)
(* <<name, value>> attributes, text its only child; tag "" is bare text.   *)
(***************************************************************************)

HasAttr(n, name) == \E i \in DOMAIN n.attrs : n.attrs[i][1] = name

\* tag.get(name) where the attribute is present; of an attribute written
\* twice the parser keeps the last value
Attr(n, name) ==
    n.attrs[CHOOSE i \in DOMAIN n.attrs :
                /\ n.attrs[i][1] = name
                /\ \A j \in DOMAIN n.attrs : n.attrs[j][1] = name => i >= j][2]

\* Python truthiness of tag.get(name): None and "" are false
Truthy(n, name) == HasAttr(n, name) /\ Attr(n, name) # ""

\* tag.get('class', []): the list of class tokens
ClassList(n) == IF HasAttr(n, "class") THEN Tokens(Attr(n, "class"), "") ELSE <<>>

\* tag.get_text(strip=True)
GetText(n) == Strip(n.text)

RECURSIVE RenderAttrs(_)
RenderAttrs(attrs) ==
    IF attrs = <<>> THEN ""
    ELSE " " \o Head(attrs)[1] \o "=\"" \o Head(attrs)[2] \o "\"" \o RenderAttrs(Tail(attrs))

RenderNode(n) ==
    IF n.tag = "" THEN n.text
    ELSE IF n.tag = "input" THEN "<input" \o RenderAttrs(n.attrs) \o ">"
    ELSE "<" \o n.tag \o RenderAttrs(n.attrs) \o ">" \o n.text \o "</" \o n.tag \o ">"

\* response.text: the markup of the page, elements separated by one space
RECURSIVE Render(_)
Render(doc) ==
    IF doc = <<>> THEN ""
    ELSE IF Len(doc) = 1 THEN RenderNode(doc[1])
    ELSE RenderNode(Head(doc)) \o " " \o Render(Tail(doc))

(***************************************************************************)
(* is_product_available                                                    *)
(***************************************************************************)

\* Stand-in for the three-character currency literal of lines 199, 290, 295
\* and 301, which is not ASCII.
RupeeMark == "~R~"

DenyClasses == {"disabled", "btn-disabled", "out-of-stock"}

\* class_='add-to-cart': a class token (or the whole attribute) equals it
IsAddToCartAnchor(n) ==
    /\ n.tag = "a"
    /\ HasAttr(n, "class")
    /\ \/ "add-to-cart" \in Range(ClassList(n))
       \/ Attr(n, "class") = "add-to-cart"

\* lines 178-184: the class deny-list, then the final return True
DenyListCheck(button) ==
    IF \E cls \in Range(ClassList(button)) : cls \in DenyClasses
    THEN "continue"
    ELSE "return_true"

\* ButtonStep with the site's convention inverted back: disabled="0" read as
\* disabled, as the common convention would have it
ButtonStepInverted(button) ==
    LET button_text == Lower(GetText(button)) IN
    IF ~Contains(button_text, "add to cart") THEN "continue"
    ELSE IF ~HasAttr(button, "disabled") THEN "return_true"
    ELSE IF Attr(button, "disabled") = "0" THEN "continue"
    ELSE IF \/ Attr(button, "disabled") = "1"
            \/ Lower(Attr(button, "disabled")) = "true"
         THEN "continue"
    ELSE DenyListCheck(button)

\* The body of the loop over add_to_cart_buttons for one button: what the
\* iteration ends with.
ButtonStep(button) ==
    LET button_text == Lower(GetText(button)) IN
    IF ~Contains(button_text, "add to cart") THEN "continue"
    ELSE IF ~HasAttr(button, "disabled")
         THEN IF \/ Truthy(button, "href")
                 \/ Truthy(button, "onclick")
                 \/ ~Truthy(button, "disabled")
              THEN "return_true"
              ELSE DenyListCheck(button)
    ELSE IF Attr(button, "disabled") = "0" THEN "return_true"
    ELSE IF \/ Attr(button, "disabled") = "1"
            \/ Lower(Attr(button, "disabled")) = "true"
         THEN "continue"
    ELSE DenyListCheck(button)

\* Method 1: find_all('a', class_='add-to-cart') in document order; the loop
\* returns True at the first button accepted
RECURSIVE ScanButtons(_)
ScanButtons(buttons) ==
    IF buttons = <<>> THEN FALSE
    ELSE IF ButtonStep(Head(buttons)) = "return_true" THEN TRUE
    ELSE ScanButtons(Tail(buttons))

Method1(doc) == ScanButtons(SelectSeq(doc, IsAddToCartAnchor))

IsTextInput(n) == n.tag = "input" /\ HasAttr(n, "type") /\ Attr(n, "type") = "text"

\* Method 2: an enabled quantity input
Method2(doc) ==
    \E input_field \in Range(SelectSeq(doc, IsTextInput)) :
        /\ HasAttr(input_field, "placeholder")
        /\ Attr(input_field, "placeholder") = "Quantity"
        /\ ~Truthy(input_field, "disabled")

\* the class_ lambda of line 194
PriceClassTest(x) ==
    x # "" /\ (Contains(Lower(x), "price") \/ Contains(Lower(x), "mrp"))

RECURSIVE Join(_)
Join(toks) ==
    IF toks = <<>> THEN ""
    ELSE IF Len(toks) = 1 THEN toks[1]
    ELSE Head(toks) \o " " \o Join(Tail(toks))

\* bs4 tries the lambda on each class token, then on the joined tokens
IsPriceElement(n) ==
    /\ n.tag # ""
    /\ HasAttr(n, "class")
    /\ \/ \E x \in Range(ClassList(n)) : PriceClassTest(x)
       \/ PriceClassTest(Join(ClassList(n)))

\* Method 3: a price element showing a currency marker
Method3(doc) ==
    \E price_elem \in Range(SelectSeq(doc, IsPriceElement)) :
        LET price_text == GetText(price_elem) IN
        Contains(price_text, RupeeMark) \/ Contains(Lower(price_text), "rs")

unavailable_patterns ==
    <<"out of stock", "sold out", "currently unavailable",
      "notify when available", "coming soon", "temporarily out of stock",
      "not available", "stock not available", "currently out of stock">>

available_patterns ==
    <<"in stock", "available now", "buy now", "available for purchase",
      "add to cart">>

\* Method4 with the two loops in the other order: an availability phrase is
\* accepted before the unavailability phrases are looked for
Method4AvailableFirst(content) ==
    LET content_lower == Lower(content) IN
    IF \E i \in DOMAIN available_patterns :
            /\ Contains(content_lower, available_patterns[i])
            /\ ~Contains(content_lower, "not " \o available_patterns[i])
            /\ ~Contains(content_lower, "no " \o available_patterns[i])
    THEN TRUE
    ELSE FALSE

\* Method 4: the text-based checks on the whole content
Method4(content) ==
    LET content_lower == Lower(content) IN
    IF \E i \in DOMAIN unavailable_patterns :
            Contains(content_lower, unavailable_patterns[i])
    THEN FALSE
    ELSE \E i \in DOMAIN available_patterns :
            /\ Contains(content_lower, available_patterns[i])
            /\ ~Contains(content_lower, "not " \o available_patterns[i])
            /\ ~Contains(content_lower, "no " \o available_patterns[i])

out_of_stock_patterns ==
    <<"out of stock", "sold out", "currently unavailable",
      "notify when available", "coming soon", "not available">>

in_stock_patterns == <<"add to cart", "buy now", "in stock", "available">>

text_based_availability_check(content) ==
    LET content_lower == Lower(content) IN
    IF \E i \in DOMAIN out_of_stock_patterns :
            Contains(content_lower, out_of_stock_patterns[i])
    THEN FALSE
    ELSE \E i \in DOMAIN in_stock_patterns :
            Contains(content_lower, in_stock_patterns[i])

\* doc is the tree BeautifulSoup builds from content; mode says whether the
\* import and the parse succeed
is_product_available(doc, content, mode) ==
    IF mode # "ok" THEN text_based_availability_check(content)
    ELSE IF Method1(doc) THEN TRUE
    ELSE IF Method2(doc) THEN TRUE
    ELSE IF Method3(doc) THEN TRUE
    ELSE Method4(content)


(***************************************************************************)
(* extract_price                                                           *)
(***************************************************************************)

IsDigit(c) == c \in {"0", "1", "2", "3", "4", "5", "6", "7", "8", "9"}

CharAt(s, i) == IF i >= 1 /\ i <= Len(s) THEN SubSeq(s, i, i) ELSE ""

\* the last index of the run of [\d,] characters that starts at j
RECURSIVE DigitsEnd(_, _)
DigitsEnd(s, j) ==
    IF IsDigit(CharAt(s, j + 1)) \/ CharAt(s, j + 1) = ","
    THEN DigitsEnd(s, j + 1)
    ELSE j

\* re.search(r'<currency>[\d,]+(?:\.\d{2})?', s): <<>> is None, <<m>> is
\* m.group()
PriceSearch(s) ==
    LET n == Len(RupeeMark)
        Starts == {i \in 1..(Len(s) - n) :
                      /\ SubSeq(s, i, i + n - 1) = RupeeMark
                      /\ IsDigit(CharAt(s, i + n)) \/ CharAt(s, i + n) = ","}
    IN  IF Starts = {} THEN <<>>
        ELSE LET i == CHOOSE k \in Starts : \A m \in Starts : k <= m
                 e == DigitsEnd(s, i + n)
                 f == IF /\ CharAt(s, e + 1) = "."
                         /\ IsDigit(CharAt(s, e + 2))
                         /\ IsDigit(CharAt(s, e + 3))
                      THEN e + 3 ELSE e
             IN  <<SubSeq(s, i, f)>>

\* price_selectors: "class" is a .name selector, "substr" a [class*="..."] one
price_selectors ==
    << <<"class", "price">>, <<"class", "product-price">>,
       <<"class", "selling-price">>, <<"class", "mrp">>,
       <<"substr", "price">>, <<"substr", "cost">> >>

SelectorMatches(selector, n) ==
    /\ n.tag # ""
    /\ HasAttr(n, "class")
    /\ IF selector[1] = "class"
       THEN selector[2] \in Range(ClassList(n))
       ELSE Contains(Join(ClassList(n)), selector[2])

\* the loop over price_selectors: soup.select_one, then the regex on its text
RECURSIVE TrySelectors(_, _)
TrySelectors(doc, selectors) ==
    IF selectors = <<>> THEN <<>>
    ELSE LET Test(n) == SelectorMatches(Head(selectors), n)
             found == SelectSeq(doc, Test)
             price_match == IF found = <<>> THEN <<>>
                            ELSE PriceSearch(GetText(found[1]))
         IN  IF price_match # <<>> THEN price_match
             ELSE TrySelectors(doc, Tail(selectors))

extract_price(doc, content, mode) ==
    IF mode = "missing" THEN PriceSearch(content)
    ELSE IF mode = "error" THEN <<>>
    ELSE IF TrySelectors(doc, price_selectors) # <<>>
         THEN TrySelectors(doc, price_selectors)
         ELSE PriceSearch(content)

\* the status check_product_availability returns for a page that was served
StatusOf(doc, mode) ==
    LET content == Render(doc)
        avail == is_product_available(doc, content, mode)
    IN  [available |-> avail,
         price |-> IF avail THEN extract_price(doc, content, mode) ELSE <<>>,
         error |-> FALSE]

\* ErrorStatus with the flag left at the optimistic value
ErrorStatusAvailable == [available |-> TRUE, price |-> <<>>, error |-> TRUE]

\* the status it returns when the request raises RequestException
ErrorStatus == [available |-> FALSE, price |-> <<>>, error |-> TRUE]

(***************************************************************************)
(* The pages the classifier is run on.                                     *)
(***************************************************************************)

El(tag, attrs, text) == [tag |-> tag, attrs |-> attrs, text |-> text]

Anchors ==
    { El("a", << <<"class", "add-to-cart">>, <<"disabled", "0">> >>, "Add to Cart"),
      El("a", << <<"class", "add-to-cart">>, <<"disabled", "1">> >>, "Add to Cart"),
      El("a", << <<"class", "btnadd-to-cart">>, <<"disabled", "True">> >>,
         "\n\t ADD TO CART\n"),
      El("a", << <<"class", "add-to-cart">>, <<"disabled", "1">>,
                 <<"disabled", "0">> >>, "Add to Cart"),
      El("a", << <<"class", "add-to-cart">>, <<"href", "/cart">> >>, "Add to Cart"),
      El("a", << <<"class", "add-to-cart disabled">> >>, "Add to Cart"),
      El("a", << <<"class", "add-to-cart out-of-stock">>, <<"disabled", "">> >>, "Add to Cart"),
      El("a", << <<"class", "add-to-cart">>, <<"disabled", "disabled">> >>, "Add to Cart"),
      El("a", << <<"class", "add-to-cart">>, <<"disabled", "0">> >>, "Notify Me"),
      El("a", << <<"class", "btn">>, <<"disabled", "0">> >>, "Add to Cart") }

Inputs ==
    { El("input", << <<"type", "text">>, <<"placeholder", "Quantity">> >>, ""),
      El("input", << <<"type", "text">>, <<"placeholder", "Quantity">>,
                     <<"disabled", "disabled">> >>, "") }

PriceElements ==
    { El("span", << <<"class", "product-price">> >>, RupeeMark \o "1,234.50"),
      El("div", << <<"class", "MRP">> >>, "Rs. 99"),
      El("span", << <<"class", "price">> >>, "120") }

Texts ==
    { El("", <<>>, "Out of Stock"),
      El("", <<>>, "Currently Out of Stock"),
      El("", <<>>, "Sold Out"),
      El("", <<>>, "not in stock"),
      El("", <<>>, "No add to cart"),
      El("", <<>>, "Buy Now! Limited stock available"),
      El("", <<>>, "In Stock"),
      El("", <<>>, "Price " \o RupeeMark \o "2,499.00") }

NodeSet == Anchors \cup Inputs \cup PriceElements \cup Texts

\* the largest number of elements on a page
MaxNodes == 2

Pages == UNION {[1..n -> NodeSet] : n \in 0..MaxNodes}

Modes == {"ok", "missing", "error"}


(***************************************************************************)
(* check_product_availability on one page: SpecClassify                    *)
(***************************************************************************)

\* the monitor before any process has started
MonitorIdle ==
    /\ state_file = [exists |-> FALSE, valid |-> FALSE,
                     data |-> [obs |-> <<>>, meta |-> <<>>]]
    /\ pc = "idle"
    /\ previous_state = [obs |-> <<>>, meta |-> <<>>]
    /\ current_state = [obs |-> <<>>, meta |-> <<>>]
    /\ notifications_sent = <<>>
    /\ idx = 0
    /\ status_change = ""
    /\ exit_kind = ""
    /\ runs = 0
    /\ loaded = [obs |-> <<>>, meta |-> <<>>]
    /\ events = <<>>
    /\ checked = <<>>
    /\ write_log = <<>>
    /\ undelivered = {}

\* no page is being classified
ClassifierIdle ==
    /\ page = <<>>
    /\ bs4 = "ok"
    /\ cpc = "idle"
    /\ available = FALSE
    /\ price = <<>>

\* line 129: a page was served; whether bs4 imports and parses is the
\* environment's choice
InitClassify ==
    /\ page \in Pages
    /\ bs4 \in Modes
    /\ cpc = "fetched"
    /\ available = FALSE
    /\ price = <<>>
    /\ MonitorIdle

\* line 130
Classify ==
    /\ cpc = "fetched"
    /\ available' = is_product_available(page, Render(page), bs4)
    /\ cpc' = "classified"
    /\ UNCHANGED <<page, bs4, price>>
    /\ UNCHANGED mvars

\* line 131
ExtractPrice ==
    /\ cpc = "classified"
    /\ price' = IF available THEN extract_price(page, Render(page), bs4) ELSE <<>>
    /\ cpc' = "returned"
    /\ UNCHANGED <<page, bs4, available>>
    /\ UNCHANGED mvars

NextClassify == Classify \/ ExtractPrice

SpecClassify == InitClassify /\ [][NextClassify]_vars


(***************************************************************************)
(* The monitor: main, StockMonitor.__init__ and monitor_products.          *)
(*                                                                         *)
(* A state dict is [obs, meta]: obs maps the product names it holds to     *)
(* their status, meta maps its other keys to numbers ("run_count" and      *)
(* "notifications_sent" to their values, "last_run", "initialized" and     *)
(* "error" to 0, their text being left out).  The state file holds only   *)
(* what the program wrote: a file put there by someone else, on which      *)
(* line 385 could raise, is not among the states.                          *)
(***************************************************************************)

\* the number of entries of self.products
NumProducts == 2

\* self.products, by position
Products == 1..NumProducts

\* the number of times the program is started
MaxRuns == 2

EmptyState == [obs |-> <<>>, meta |-> <<>>]

\* d[k] = v on a dict
Put(d, k, v) == [x \in (DOMAIN d) \cup {k} |-> IF x = k THEN v ELSE d[x]]

\* d.get(k, default)
Get(d, k, default) == IF k \in DOMAIN d THEN d[k] ELSE default

\* load_state: the file's dict, {} when the file is absent or unreadable
load_state == IF state_file.exists /\ state_file.valid THEN state_file.data
              ELSE EmptyState

\* save_state(state): "ok" writes the file, "open_failed" leaves it as it
\* was, "dump_failed" leaves it truncated; the exception is only logged
SaveOutcomes == {"ok", "open_failed", "dump_failed"}

save_state(file, state, outcome) ==
    IF outcome = "ok" THEN [exists |-> TRUE, valid |-> TRUE, data |-> state]
    ELSE IF outcome = "dump_failed"
         THEN [exists |-> TRUE, valid |-> FALSE, data |-> EmptyState]
    ELSE file

\* the pages the site serves to the monitor
SitePages ==
    { << El("a", << <<"class", "add-to-cart">>, <<"disabled", "0">> >>, "Add to Cart"),
         El("span", << <<"class", "product-price">> >>, RupeeMark \o "1,234.50") >>,
      << El("", <<>>, "Sold Out") >> }

\* what check_product_availability can return
FetchResults == {StatusOf(doc, "ok") : doc \in SitePages} \cup {ErrorStatus}

\* initial_state of ensure_files_exist, lines 112-115
InitialFile ==
    [obs |-> <<>>, meta |-> Put(Put(<<>>, "initialized", 0), "last_run", 0)]

\* the dict main dumps when it catches an exception, lines 470-473
ErrorFile ==
    [obs |-> <<>>, meta |-> Put(Put(<<>>, "error", 0), "timestamp", 0)]

\* main, lines 457 and 463-475: __init__ raises before it loads the state
\* (line 40, int() of an SMTP_PORT that is not a number); main logs the
\* exception and dumps ErrorFile over the state file, a failure of that
\* write being passed over; the process ends
ConstructorError ==
    /\ pc = "idle"
    /\ runs < MaxRuns
    /\ runs' = runs + 1
    /\ \E outcome \in SaveOutcomes :
         /\ state_file' = save_state(state_file, ErrorFile, outcome)
         /\ undelivered' = IF outcome = "open_failed" THEN undelivered ELSE {}
    /\ UNCHANGED <<pc, previous_state, current_state, notifications_sent, idx,
                   status_change, exit_kind, loaded, events, checked,
                   write_log>>
    /\ UNCHANGED cvars

\* main, line 457: a process starts and __init__ loads the state file
Start ==
    /\ pc = "idle"
    /\ runs < MaxRuns
    /\ runs' = runs + 1
    /\ previous_state' = load_state
    /\ loaded' = load_state
    /\ pc' = "begin"
    /\ UNCHANGED <<state_file, current_state, notifications_sent, idx,
                   status_change, exit_kind, events, checked, write_log>>
    /\ UNCHANGED <<cvars, undelivered>>

\* the first current_state of a run, lines 383-386
InitialCurrentState ==
    [obs |-> <<>>,
     meta |-> Put(Put(<<>>, "last_run", 0), "run_count",
                  Get(previous_state.meta, "run_count", 0) + 1)]

\* lines 378-389: ensure_files_exist, then current_state and
\* notifications_sent are created and the loop is entered
Begin ==
    /\ pc = "begin"
    /\ IF state_file.exists
       THEN UNCHANGED <<state_file, write_log, undelivered>>
       ELSE \E outcome \in SaveOutcomes :
              /\ state_file' = save_state(state_file, InitialFile, outcome)
              /\ undelivered' = IF outcome = "open_failed" THEN undelivered
                                ELSE {}
              /\ write_log' = Append(write_log,
                                     [at |-> "ensure", state |-> InitialFile])
    /\ current_state' = InitialCurrentState
    /\ notifications_sent' = <<>>
    /\ idx' = 1
    /\ pc' = "fetch"
    /\ UNCHANGED <<previous_state, status_change, exit_kind, runs, loaded,
                   events, checked>>
    /\ UNCHANGED cvars

\* Fetch writing the status into the loaded snapshot too, as it would if
\* current_state were the same dict as self.previous_state
FetchAliased ==
    /\ pc = "fetch"
    /\ \E status \in FetchResults :
         /\ current_state' = [current_state EXCEPT !.obs = Put(@, idx, status)]
         /\ previous_state' = [previous_state EXCEPT !.obs = Put(@, idx, status)]
         /\ checked' = Append(checked, [product |-> idx, status |-> status])
    /\ pc' = "compare"
    /\ UNCHANGED <<state_file, notifications_sent, idx,
                   status_change, exit_kind, runs, loaded, events, write_log>>
    /\ UNCHANGED <<cvars, undelivered>>

\* lines 393-394: the product is checked and its status recorded
Fetch ==
    /\ pc = "fetch"
    /\ \E status \in FetchResults :
         /\ current_state' = [current_state EXCEPT !.obs = Put(@, idx, status)]
         /\ checked' = Append(checked, [product |-> idx, status |-> status])
    /\ pc' = "compare"
    /\ UNCHANGED <<state_file, previous_state, notifications_sent, idx,
                   status_change, exit_kind, runs, loaded, events, write_log>>
    /\ UNCHANGED <<cvars, undelivered>>

\* lines 397-398
previous_available(product) ==
    Get(previous_state.obs, product, [available |-> FALSE]).available

\* line 399
current_available(product) == current_state.obs[product].available

\* StatusChanged without the previous state: every available product notifies
StatusChangedIgnoringPrevious(product) == current_available(product)

\* line 401
StatusChanged(product) == previous_available(product) # current_available(product)

\* line 402 (the symbol after the words is left out)
StatusChangeLabel(product) ==
    IF current_available(product) THEN "Available" ELSE "Out of Stock"

\* lines 397-403: the comparison; a change raises a notification event
Compare ==
    /\ pc = "compare"
    /\ IF StatusChanged(idx)
       THEN /\ status_change' = StatusChangeLabel(idx)
            /\ events' = Append(events, [product |-> idx,
                                         status |-> StatusChangeLabel(idx)])
            /\ pc' = "notify"
       ELSE /\ pc' = "sleep"
            /\ UNCHANGED <<status_change, events>>
    /\ UNCHANGED <<state_file, previous_state, current_state,
                   notifications_sent, idx, exit_kind, runs, loaded, checked,
                   write_log>>
    /\ UNCHANGED <<cvars, undelivered>>

\* Notify keeping the old flag when neither send succeeded, so that the
\* change would be detected and notified again by the next run
NotifyRetrying ==
    /\ pc = "notify"
    /\ \E telegram_sent \in BOOLEAN, email_sent \in BOOLEAN :
         /\ notifications_sent' =
               Append(notifications_sent,
                      [product |-> idx, status |-> status_change,
                       telegram_sent |-> telegram_sent, email_sent |-> email_sent])
         /\ current_state' =
               IF telegram_sent \/ email_sent THEN current_state
               ELSE [current_state EXCEPT
                        !.obs[idx].available = previous_available(idx)]
    /\ pc' = "sleep"
    /\ UNCHANGED <<state_file, previous_state, idx,
                   status_change, exit_kind, runs, loaded, events, checked,
                   write_log>>
    /\ UNCHANGED <<cvars, undelivered>>

\* lines 406-419: both sends are tried (each returns False when it fails or
\* has no credentials) and the notification is recorded
Notify ==
    /\ pc = "notify"
    /\ \E telegram_sent \in BOOLEAN, email_sent \in BOOLEAN :
         notifications_sent' =
             Append(notifications_sent,
                    [product |-> idx, status |-> status_change,
                     telegram_sent |-> telegram_sent, email_sent |-> email_sent])
    /\ pc' = "sleep"
    /\ UNCHANGED <<state_file, previous_state, current_state, idx,
                   status_change, exit_kind, runs, loaded, events, checked,
                   write_log>>
    /\ UNCHANGED <<cvars, undelivered>>

\* line 422 and the loop header: the pause, then the next product or the
\* end of the loop
Sleep ==
    /\ pc = "sleep"
    /\ IF idx < NumProducts
       THEN /\ idx' = idx + 1
            /\ pc' = "fetch"
            /\ UNCHANGED exit_kind
       ELSE /\ pc' = "finally"
            /\ exit_kind' = "normal"
            /\ UNCHANGED idx
    /\ UNCHANGED <<state_file, previous_state, current_state,
                   notifications_sent, status_change, runs, loaded, events,
                   checked, write_log>>
    /\ UNCHANGED <<cvars, undelivered>>

\* lines 424-426: an exception other than those the callees catch leaves the
\* loop and is recorded in current_state
UnexpectedError ==
    /\ pc \in {"fetch", "notify"}
    /\ current_state' = [current_state EXCEPT !.meta = Put(@, "error", 0)]
    /\ exit_kind' = "error"
    /\ pc' = "finally"
    /\ UNCHANGED <<state_file, previous_state, notifications_sent, idx,
                   status_change, runs, loaded, events, checked, write_log>>
    /\ UNCHANGED <<cvars, undelivered>>

\* KeyboardInterrupt inside the loop: no except clause of monitor_products
\* takes it, the finally clause runs
Interrupt ==
    /\ pc \in {"fetch", "compare", "notify", "sleep"}
    /\ exit_kind' = "interrupt"
    /\ pc' = "finally"
    /\ UNCHANGED <<state_file, previous_state, current_state,
                   notifications_sent, idx, status_change, runs, loaded,
                   events, checked, write_log>>
    /\ UNCHANGED <<cvars, undelivered>>

\* KeyboardInterrupt before the try statement is entered (lines 378-387):
\* no finally clause applies, main logs it (lines 460-462) and the process
\* ends without the save of the finally clause.  It arrives before
\* ensure_files_exist has touched the state file, or, when the file was
\* absent, after the save_state call of line 116 (whatever its outcome).
InterruptBeforeLoop ==
    /\ pc = "begin"
    /\ pc' = "idle"
    /\ previous_state' = EmptyState
    /\ loaded' = EmptyState
    /\ \/ UNCHANGED <<state_file, undelivered>>
       \/ /\ ~state_file.exists
          /\ \E outcome \in SaveOutcomes :
                /\ state_file' = save_state(state_file, InitialFile, outcome)
                /\ undelivered' = IF outcome = "open_failed" THEN undelivered
                                  ELSE {}
    /\ UNCHANGED <<current_state, notifications_sent, idx,
                   status_change, exit_kind, runs, events, checked, write_log>>
    /\ UNCHANGED cvars

\* SavedOnExit saving the snapshot loaded at the start instead of this run's
\* observations
SavedOnExitStale ==
    [previous_state EXCEPT
        !.meta = Put(@, "notifications_sent", Len(notifications_sent))]

\* lines 431-432: the state handed to save_state on the way out
SavedOnExit ==
    [current_state EXCEPT
        !.meta = Put(@, "notifications_sent", Len(notifications_sent))]

\* this run's notifications_sent entries with telegram_sent and email_sent
\* both False (lines 406-417), as product and status
Undelivered ==
    {[product |-> notifications_sent[i].product,
      status |-> notifications_sent[i].status] : i \in
        {j \in DOMAIN notifications_sent :
            /\ ~notifications_sent[j].telegram_sent
            /\ ~notifications_sent[j].email_sent}}

\* KeyboardInterrupt inside the finally clause (lines 431-433): the except
\* clause of line 442 does not take it, monitor_products is left with
\* self.previous_state not replaced, main logs it (lines 460-462) and the
\* process ends.  It arrives before save_state has touched the file (at
\* line 431, at line 432 before the call, or in save_state before the open),
\* or later: in save_state, whose except clause does not take it either,
\* with the file left truncated, or at line 433 when save_state has returned.
InterruptFinally ==
    /\ pc = "finally"
    /\ pc' = "idle"
    /\ \/ UNCHANGED <<state_file, undelivered>>
       \/ \E outcome \in SaveOutcomes :
             /\ state_file' = save_state(state_file, SavedOnExit, outcome)
             /\ undelivered' = IF outcome = "ok" THEN Undelivered
                               ELSE IF outcome = "dump_failed" THEN {}
                               ELSE undelivered
    /\ previous_state' = EmptyState
    /\ current_state' = EmptyState
    /\ notifications_sent' = <<>>
    /\ idx' = 0
    /\ status_change' = ""
    /\ exit_kind' = ""
    /\ loaded' = EmptyState
    /\ events' = <<>>
    /\ checked' = <<>>
    /\ write_log' = <<>>
    /\ UNCHANGED runs
    /\ UNCHANGED cvars

\* lines 428-443: the finally clause, run to its end
Finally ==
    /\ pc = "finally"
    /\ current_state' = SavedOnExit
    /\ \E outcome \in SaveOutcomes :
         /\ state_file' = save_state(state_file, SavedOnExit, outcome)
         /\ undelivered' = IF outcome = "ok" THEN Undelivered
                           ELSE IF outcome = "dump_failed" THEN {}
                           ELSE undelivered
    /\ write_log' = Append(write_log, [at |-> "finally", state |-> SavedOnExit])
    /\ previous_state' = SavedOnExit
    /\ pc' = "exited"
    /\ UNCHANGED <<notifications_sent, idx, status_change, exit_kind, runs,
                   loaded, events, checked>>
    /\ UNCHANGED cvars

\* lines 445-462, after the finally clause has run to its end (pc is
\* "exited"): the summary is logged (or the interrupt is, by main) and the
\* process ends; its memory is gone
Exit ==
    /\ pc = "exited"
    /\ pc' = "idle"
    /\ previous_state' = EmptyState
    /\ current_state' = EmptyState
    /\ notifications_sent' = <<>>
    /\ idx' = 0
    /\ status_change' = ""
    /\ exit_kind' = ""
    /\ loaded' = EmptyState
    /\ events' = <<>>
    /\ checked' = <<>>
    /\ write_log' = <<>>
    /\ UNCHANGED <<state_file, runs>>
    /\ UNCHANGED <<cvars, undelivered>>

Init == MonitorIdle /\ ClassifierIdle

Next ==
    \/ Start
    \/ ConstructorError
    \/ Begin
    \/ Fetch
    \/ Compare
    \/ Notify
    \/ Sleep
    \/ UnexpectedError
    \/ Interrupt
    \/ InterruptBeforeLoop
    \/ InterruptFinally
    \/ Finally
    \/ Exit

Spec == Init /\ [][Next]_vars


(***************************************************************************)
(* Properties of the monitor (checked under Spec)                          *)
(***************************************************************************)

InLoop == pc \in {"fetch", "compare", "notify", "sleep"}

\* the number of notification events raised for product p in this run
EventCount(p) == Cardinality({i \in DOMAIN events : events[i].product = p})

\* the available flag of p in the state loaded at the start, False when p
\* has no record there
PriorAvailable(p) ==
    IF p \in DOMAIN loaded.obs THEN loaded.obs[p].available ELSE FALSE

\* line 401 has been evaluated for p in this run
Compared(p) ==
    \/ InLoop /\ (p < idx \/ (p = idx /\ pc \in {"notify", "sleep"}))
    \/ pc \in {"finally", "exited"} /\ exit_kind = "normal"

\* C1: in one run, a product whose comparison was made has raised exactly
\* one notification event if its available flag in the loaded state (False
\* without a record) differs from the new observation, and none if they are
\* equal; no product ever raises more than one, and an event is labelled
\* "Available" exactly when the new observation is available.
C1_OneEventPerChange ==
    \A p \in Products :
        /\ EventCount(p) <= 1
        /\ \A i \in DOMAIN events :
              events[i].product = p =>
                  /\ p \in DOMAIN current_state.obs
                  /\ PriorAvailable(p) # current_state.obs[p].available
                  /\ events[i].status =
                        IF current_state.obs[p].available
                        THEN "Available" ELSE "Out of Stock"
        /\ Compared(p) =>
              EventCount(p) =
                  IF PriorAvailable(p) # current_state.obs[p].available
                  THEN 1 ELSE 0

\* a completed run in which a product without a prior record was found
\* available and raised its one "Available" event, and a product that was
\* and stayed available raised none
C1_Witness ==
    /\ pc = "exited"
    /\ exit_kind = "normal"
    /\ \E p \in Products :
          /\ p \notin DOMAIN loaded.obs
          /\ current_state.obs[p].available
          /\ EventCount(p) = 1
          /\ \E i \in DOMAIN events :
                events[i] = [product |-> p, status |-> "Available"]
    /\ \E q \in Products :
          /\ q \in DOMAIN loaded.obs
          /\ loaded.obs[q].available
          /\ current_state.obs[q].available
          /\ EventCount(q) = 0

\* C2: from the start of monitor_products until its finally clause runs,
\* self.previous_state is the state that was loaded at the start, so the
\* previous flag read at line 398 is the loaded one whatever was checked,
\* notified or recorded before in the run.
C2_SnapshotUntouched ==
    pc \in {"begin", "fetch", "compare", "notify", "sleep", "finally"} =>
        /\ previous_state = loaded
        /\ InLoop => previous_available(idx) = PriorAvailable(idx)

\* the second product is about to be compared after the first one was
\* observed with another flag than the loaded one and notified
C2_Witness ==
    /\ pc = "compare"
    /\ idx = 2
    /\ 1 \in DOMAIN loaded.obs
    /\ 2 \in DOMAIN loaded.obs
    /\ loaded.obs[1].available # current_state.obs[1].available
    /\ Len(notifications_sent) = 1
    /\ previous_state.obs[1] = loaded.obs[1]

\* C6: a failed fetch yields the status available=False, no price, with the
\* error field, the products are checked one by one in list order, and a
\* loop that was neither interrupted nor hit by an unexpected error has
\* checked every product, failed fetches included.
C6_FetchFailureGoesOn ==
    /\ \A i \in DOMAIN checked :
          /\ checked[i].product = i
          /\ checked[i].status.error =>
                /\ ~checked[i].status.available
                /\ checked[i].status.price = <<>>
          /\ current_state.obs[i] = checked[i].status
    /\ InLoop => Len(checked) = (IF pc = "fetch" THEN idx - 1 ELSE idx)
    /\ (pc \in {"finally", "exited"} /\ exit_kind = "normal") =>
          Len(checked) = NumProducts

\* a run that ended normally although the fetch of its first product failed
C6_Witness ==
    /\ pc = "exited"
    /\ exit_kind = "normal"
    /\ checked[1].status.error
    /\ Len(checked) = NumProducts
    /\ ~checked[NumProducts].status.error

\* C7: when monitor_products is left along one of the three paths named,
\* after its loop ended, raised an unexpected error or was interrupted, its
\* last act on the state file was a save_state call of the finally clause,
\* and the state handed to it holds the status of every product whose check
\* returned in this run.  (A further interruption inside the finally clause,
\* InterruptFinally, is none of the three: it never reaches "exited".)
C7_SaveOnEveryExit ==
    pc = "exited" =>
        /\ write_log # <<>>
        /\ write_log[Len(write_log)].at = "finally"
        /\ \A i \in DOMAIN checked :
              /\ checked[i].product \in DOMAIN write_log[Len(write_log)].state.obs
              /\ write_log[Len(write_log)].state.obs[checked[i].product]
                     = checked[i].status

\* an interrupted run that had checked some but not all products, the first
\* of them available, and saved that observation on its way out
C7_Witness ==
    /\ pc = "exited"
    /\ exit_kind = "interrupt"
    /\ Len(checked) >= 1
    /\ Len(checked) < NumProducts
    /\ checked[1].status.available
    /\ write_log[Len(write_log)].state.obs[1].available

\* C10 as claimed: the state handed to the save at the end of a run holds an
\* observation for every product that had one in the loaded state.
C10_Claim_KeepsLoadedObservations ==
    pc = "exited" =>
        \A p \in DOMAIN loaded.obs :
            p \in DOMAIN write_log[Len(write_log)].state.obs


(***************************************************************************)
(* Properties of the classifier (checked under SpecClassify)               *)
(***************************************************************************)

Classified == cpc \in {"classified", "returned"}

\* the lower-cased content holds a phrase of the unavailability set
HasUnavailablePhrase(doc) ==
    LET content_lower == Lower(Render(doc)) IN
    \E i \in DOMAIN unavailable_patterns :
        Contains(content_lower, unavailable_patterns[i])

\* the lower-cased text holds a phrase of the availability set
HasAvailablePhrase(text) ==
    LET text_lower == Lower(text) IN
    \E i \in DOMAIN available_patterns :
        Contains(text_lower, available_patterns[i])

\* an anchor with the add-to-cart class whose text contains "add to cart"
IsCandidate(n) ==
    /\ n.tag = "a"
    /\ "add-to-cart" \in Range(ClassList(n))
    /\ Contains(Lower(Strip(n.text)), "add to cart")

DisabledIs(n, v) == HasAttr(n, "disabled") /\ Attr(n, "disabled") = v

\* the structural stage returns available: a button is accepted, or an
\* enabled quantity input or a price with a currency marker is found
StructuralEvidence(doc) == Method1(doc) \/ Method2(doc) \/ Method3(doc)

\* C3 as claimed: content holding an unavailability phrase is classified
\* unavailable whatever else it holds.
C3_Claim_UnavailableAlwaysWins ==
    (Classified /\ HasUnavailablePhrase(page)) => ~available

\* C3, amended: content holding an unavailability phrase is classified
\* unavailable, availability phrases or not, unless the markup parser is
\* available and the structural stage returns available first.
C3_UnavailableWinsOverPhrases ==
    (/\ Classified
     /\ HasUnavailablePhrase(page)
     /\ ~(bs4 = "ok" /\ StructuralEvidence(page)))
    => ~available

\* a parsed page with both "out of stock"-like text and an un-negated "add to
\* cart", without structural evidence, classified unavailable
C3_Witness ==
    /\ Classified
    /\ bs4 = "ok"
    /\ HasUnavailablePhrase(page)
    /\ Contains(Lower(Render(page)), "add to cart")
    /\ ~Contains(Lower(Render(page)), "no add to cart")
    /\ ~StructuralEvidence(page)
    /\ ~available

\* neither a candidate anchor, nor a quantity input, nor a price element
\* with a currency marker, nor text with an availability phrase
IsNeutral(n) ==
    /\ ~IsCandidate(n)
    /\ n.tag # "input"
    /\ ~IsPriceElement(n)
    /\ ~HasAvailablePhrase(RenderNode(n))

\* C4 as claimed: when the page is parsed, every candidate anchor carries
\* disabled="1" and the page holds no other availability evidence, the
\* verdict is unavailable.
C4_Claim_AllDisabledIsUnavailable ==
    (/\ Classified
     /\ bs4 = "ok"
     /\ \E i \in DOMAIN page : IsCandidate(page[i])
     /\ \A i \in DOMAIN page :
           \/ IsCandidate(page[i]) /\ DisabledIs(page[i], "1")
           \/ IsNeutral(page[i]))
    => ~available

\* the page holds a candidate anchor with disabled="0"
HasEnabledZeroAnchor(doc) ==
    \E i \in DOMAIN doc : IsCandidate(doc[i]) /\ DisabledIs(doc[i], "0")

\* C5 as claimed: a candidate anchor with disabled="0" makes the verdict
\* available for all content.
C5_Claim_ZeroAlwaysAvailable ==
    (Classified /\ HasEnabledZeroAnchor(page)) => available

\* C5, amended: when the markup parser is available, a candidate anchor with
\* disabled="0" makes the verdict available whatever other anchors, classes
\* or phrases the content holds.
C5_ZeroMeansEnabled ==
    (Classified /\ bs4 = "ok" /\ HasEnabledZeroAnchor(page)) => available

\* a parsed page with an unavailability phrase and a rejected or a
\* disabled="0" anchor before the disabled="0" one, classified available
C5_Witness ==
    /\ Classified
    /\ bs4 = "ok"
    /\ Len(page) = 2
    /\ IsCandidate(page[2]) /\ DisabledIs(page[2], "0")
    /\ page[1].text = "Sold Out" \/ DisabledIs(page[1], "1")
    /\ available

\* the text-pattern stage as the specification states it
TextPatternStage(content) ==
    LET lower == Lower(content) IN
    /\ ~\E i \in DOMAIN unavailable_patterns :
            Contains(lower, unavailable_patterns[i])
    /\ \E i \in DOMAIN available_patterns :
            /\ Contains(lower, available_patterns[i])
            /\ ~Contains(lower, "not " \o available_patterns[i])
            /\ ~Contains(lower, "no " \o available_patterns[i])

\* C8 as claimed: without a parser (or when parsing fails) the verdict is
\* that of the text-pattern stage, the same the fallback of line 202 gives.
C8_Claim_DegradedIsTextStage ==
    (Classified /\ bs4 # "ok") =>
        /\ available = TextPatternStage(Render(page))
        /\ available = Method4(Render(page))

\* C9 as claimed: when every candidate anchor of the page has no disabled
\* marker and a class of the deny-list, the buttons are skipped and the
\* verdict is that of the later stages.
C9_Claim_DenyListSkips ==
    (/\ Classified
     /\ bs4 = "ok"
     /\ \E i \in DOMAIN page : IsCandidate(page[i])
     /\ \A i \in DOMAIN page :
           IsCandidate(page[i]) =>
               /\ ~HasAttr(page[i], "disabled")
               /\ \E cls \in Range(ClassList(page[i])) : cls \in DenyClasses)
    => available = (Method2(page) \/ Method3(page) \/ Method4(Render(page)))


(***************************************************************************)
(* Failed notifications (checked under Spec)                               *)
(***************************************************************************)

\* C11: the state handed to the save holds, for every entry of
\* notifications_sent, delivered or not, the newly observed flag of its
\* product, and its notifications_sent counter is the number of entries,
\* which after an uninterrupted loop is the number of changes detected; and
\* a run that loaded the file raises no event for a product whose
\* notification, in the run that wrote the file, was delivered by neither
\* transport, when it observes the flag that notification announced.
C11_FailedNotificationNotRetried ==
    /\ pc = "exited" =>
          LET saved == write_log[Len(write_log)].state IN
          /\ saved.meta["notifications_sent"] = Len(notifications_sent)
          /\ exit_kind = "normal" => Len(notifications_sent) = Len(events)
          /\ \A i \in DOMAIN notifications_sent :
                /\ notifications_sent[i].product \in DOMAIN saved.obs
                /\ saved.obs[notifications_sent[i].product].available
                       = (notifications_sent[i].status = "Available")
    /\ \A n \in undelivered :
          (/\ pc \in {"fetch", "compare", "notify", "sleep", "finally"}
           /\ Compared(n.product)
           /\ current_state.obs[n.product].available = (n.status = "Available"))
          => EventCount(n.product) = 0

\* a run at the end of its loop that loaded the state written by a run in
\* which the "Available" notification of the first product was delivered by
\* neither transport, observed it available again and raised nothing for it
C11_Witness ==
    /\ pc = "finally"
    /\ exit_kind = "normal"
    /\ [product |-> 1, status |-> "Available"] \in undelivered
    /\ loaded.meta["notifications_sent"] >= 1
    /\ loaded.obs[1].available
    /\ current_state.obs[1].available
    /\ EventCount(1) = 0

====
